---- MODULE Spec2Model ----
(***************************************************************************)
(* Model of mlens/parallel/_base_functions.py: the fit pass of one layer   *)
(* (two blocking parallel phases followed by assemble), the estimation     *)
(* tasks fit_trans and fit_est, the cache handoff wait _load_trans, the    *)
(* index helpers _slice_array and _assign_predictions, and _assemble.      *)
(*                                                                         *)
(* Data is abstracted to row identities: the input x of n rows is the      *)
(* sequence <<0, ..., n-1>>, so a slice of x is the sequence of dataset    *)
(* rows it holds, and a prediction for a row is <<task, row, j>>.          *)
(* Python's None is the empty sequence wherever a value is optional.       *)
(***************************************************************************)
EXTENDS Integers, Sequences, FiniteSets, TLC

VARIABLES
    cfg,        \* the layer configuration and input sizes of this pass
    fitpc,      \* position of fit(): the dispatcher
    tt,         \* fit_trans tasks: task index -> record
    et,         \* fit_est tasks: task index -> record
    cache,      \* the cache directory: file name -> pickled value
    pred,       \* the shared prediction buffer P
    writers,    \* history: buffer cell -> set of fit_est tasks that wrote it
    layer,      \* LayerState: preprocessing_, estimators_, scores_
    warns,      \* warnings emitted so far (a set of records)
    now,        \* the clock read by time_()
    hist,       \* history of the pass: counters the claims refer to
    call        \* a single call of a helper function, with its result

vars == <<cfg, fitpc, tt, et, cache, pred, writers, layer, warns, now, hist, call>>

-----------------------------------------------------------------------------
(* Python values *)

\* None, and the string 'all', as fold specifications; (a, b) and ((a, b), ...)
None == <<>>
NoneSpec == [kind |-> "none", ivs |-> <<>>]
AllSpec == [kind |-> "all", ivs |-> <<>>]
Range(a, b) == [kind |-> "range", ivs |-> << <<a, b>> >>]
Scattered(ivs) == [kind |-> "scattered", ivs |-> ivs]

\* the case None, and '%s' % case
NoneCase == "<None>"
Str(case) == IF case = NoneCase THEN "None" ELSE case

Min(a, b) == IF a < b THEN a ELSE b
Max(a, b) == IF a > b THEN a ELSE b

\* bool(idx): None and () are false, 'all' and every non-empty tuple true
Truthy(idx) ==
    \/ idx.kind = "all"
    \/ idx.kind = "range"
    \/ idx.kind = "scattered" /\ Len(idx.ivs) > 0

\* isinstance(idx[0], tuple), for a non-empty tuple idx
FirstIsTuple(idx) == idx.kind = "scattered"

\* np.arange(a, b)
Arange(a, b) == IF b > a THEN [i \in 1..(b - a) |-> a + i - 1] ELSE <<>>

\* np.hstack([np.arange(t0 - r, t1 - r) for t0, t1 in ivs])
RECURSIVE Hstack(_, _)
Hstack(ivs, r) ==
    IF ivs = <<>> THEN <<>>
    ELSE Arange(ivs[1][1] - r, ivs[1][2] - r) \o Hstack(Tail(ivs), r)

\* a[slice(start, stop)] on an axis of length len: the positions selected
\* (negative bounds count from the end, all bounds are clipped)
SliceNorm(len, i) == IF i < 0 THEN Max(i + len, 0) ELSE Min(i, len)
PySlice(len, start, stop) == Arange(SliceNorm(len, start), SliceNorm(len, stop))

\* a[idx] for an integer array idx: IndexError unless -len <= i < len;
\* negative entries count from the end
FancyOk(len, idx) == \A k \in 1..Len(idx) : idx[k] >= 0 - len /\ idx[k] < len
PyFancy(len, idx) ==
    [k \in 1..Len(idx) |-> IF idx[k] < 0 THEN idx[k] + len ELSE idx[k]]

\* the rows of sequence x at 0-based positions pos
Take(x, pos) == [k \in 1..Len(pos) |-> x[pos[k] + 1]]

-----------------------------------------------------------------------------
(* _slice_array(x, y, idx, r): x is a sequence of rows, y is None or <<rows>> *)

SliceSimple(x, y, iv, r, path) ==
    LET pos == PySlice(Len(x), iv[1] - r, iv[2] - r)
    IN  [ok |-> TRUE, x |-> Take(x, pos),
         y |-> IF y = None THEN None ELSE <<Take(y[1], pos)>>,
         path |-> path]

SliceGather(x, y, ivs, r) ==
    LET ii == Hstack(ivs, r)
    IN  IF FancyOk(Len(x), ii) /\ (y = None \/ FancyOk(Len(y[1]), ii))
        THEN [ok |-> TRUE, x |-> Take(x, PyFancy(Len(x), ii)),
              y |-> IF y = None THEN None
                    ELSE <<Take(y[1], PyFancy(Len(y[1]), ii))>>,
              path |-> "gather"]
        ELSE [ok |-> FALSE, x |-> <<>>, y |-> None, path |-> "IndexError"]

\* len(idx[0]) > 1, where idx[0] is the first interval of a tuple of tuples
FirstLenGtOne(idx) == Len(idx.ivs[1]) > 1

_slice_array(x, y, idx0, r) ==
    LET idx == IF idx0.kind = "all" THEN NoneSpec ELSE idx0
    IN  IF ~Truthy(idx)
        THEN [ok |-> TRUE, x |-> x, y |-> y, path |-> "whole"]
        ELSE IF FirstIsTuple(idx)
             THEN IF FirstLenGtOne(idx)
                  THEN SliceGather(x, y, idx.ivs, r)
                  ELSE SliceSimple(x, y, idx.ivs[1], r, "collapsed")
             ELSE SliceSimple(x, y, idx.ivs[1], r, "slice")

-----------------------------------------------------------------------------
(* _assign_predictions(pred, p, tei, col, n)                               *)
(* pred = [rows, cols, a]: a maps <<i, j>> to a cell, <<>> when unwritten.  *)
(* p = [dim, v]: v is a sequence of rows, each a sequence of dim-1: 1      *)
(* value, dim-2: p.shape[1] values.                                        *)

PWidth(p) == IF Len(p.v) = 0 THEN 0 ELSE Len(p.v[1])

\* numpy assignment of a value axis of length k to a target axis of length L
Broadcasts(k, L) == k = L \/ k = 1

\* the last position of rows that holds i (assignment runs in order)
LastAt(rowsel, i) ==
    CHOOSE k \in 1..Len(rowsel) :
        /\ rowsel[k] = i
        /\ \A m \in (k + 1)..Len(rowsel) : rowsel[m] # i

\* pred[rowsel, colsel] = p, rowsel and colsel sequences of positions
Store(pred0, p, rowsel, colsel) ==
    LET inrow(i) == \E k \in 1..Len(rowsel) : rowsel[k] = i
        incol(j) == \E k \in 1..Len(colsel) : colsel[k] = j
        cpos(j) == CHOOSE k \in 1..Len(colsel) : colsel[k] = j
        prow(i) == IF Len(p.v) = 1 THEN 1 ELSE LastAt(rowsel, i)
        pcol(j) == IF PWidth(p) = 1 THEN 1 ELSE cpos(j)
    IN  [pred0 EXCEPT !.a =
            [c \in DOMAIN pred0.a |->
                IF inrow(c[1]) /\ incol(c[2])
                THEN <<p.v[prow(c[1])][pcol(c[2])]>>
                ELSE pred0.a[c]]]

AssignFail(pred0, why) == [ok |-> FALSE, pred |-> pred0, err |-> why]

\* pred[rowsel, col] = p  (integer column)  or
\* pred[rowsel, col:col + p.shape[1]] = p   (column slice)
AssignAt(pred0, p, rowsel, col) ==
    IF p.dim = 1
    THEN IF col >= pred0.cols
         THEN AssignFail(pred0, "IndexError")
         ELSE IF Broadcasts(Len(p.v), Len(rowsel))
              THEN [ok |-> TRUE, pred |-> Store(pred0, p, rowsel, <<col>>),
                    err |-> ""]
              ELSE AssignFail(pred0, "ValueError")
    ELSE LET colsel == PySlice(pred0.cols, col, col + PWidth(p))
         IN  IF Broadcasts(Len(p.v), Len(rowsel))
                /\ Broadcasts(PWidth(p), Len(colsel))
             THEN [ok |-> TRUE, pred |-> Store(pred0, p, rowsel, colsel),
                   err |-> ""]
             ELSE AssignFail(pred0, "ValueError")

\* pred[:, col] = p  (the branch tei == 'all'): a two-dimensional p fits the
\* one-dimensional target only when its leading axis has length 1
AssignAll(pred0, p, col) ==
    LET allrows == Arange(0, pred0.rows)
    IN  IF col >= pred0.cols THEN AssignFail(pred0, "IndexError")
        ELSE IF p.dim = 1
             THEN AssignAt(pred0, p, allrows, col)
             ELSE IF Len(p.v) = 1 /\ Broadcasts(PWidth(p), pred0.rows)
                  THEN [ok |-> TRUE,
                        pred |-> Store(pred0,
                                   [dim |-> 1,
                                    v |-> [k \in 1..PWidth(p) |-> <<p.v[1][k]>>]],
                                   allrows, <<col>>),
                        err |-> ""]
                  ELSE AssignFail(pred0, "ValueError")

RowOffsetZero(pred0, n) == 0

\* r = n - pred.shape[0]
RowOffset(pred0, n) == n - pred0.rows


_assign_predictions(pred0, p, tei, col, n) ==
    IF tei.kind = "all" THEN AssignAll(pred0, p, col)
    ELSE IF tei.kind = "none" THEN AssignFail(pred0, "TypeError")
    ELSE IF Len(tei.ivs) = 0 THEN AssignFail(pred0, "IndexError")
    ELSE LET r == RowOffset(pred0, n)
         IN  IF FirstIsTuple(tei) /\ Len(tei.ivs) > 1
             THEN LET ii == Hstack(tei.ivs, r)
                  IN  IF FancyOk(pred0.rows, ii)
                      THEN AssignAt(pred0, p, PyFancy(pred0.rows, ii), col)
                      ELSE AssignFail(pred0, "IndexError")
             ELSE AssignAt(pred0, p,
                           PySlice(pred0.rows, tei.ivs[1][1] - r,
                                   tei.ivs[1][2] - r), col)

-----------------------------------------------------------------------------
(* Bounds and defaults *)

\* IVALS = (0.01, 120): the sleep interval is one tick of the clock and the
\* ceiling is scaled down to LimTicks ticks
LimTicks == 2
IVALS == <<1, LimTicks>>

\* a sleep(s) lasts between s and s + MaxOversleep ticks
MaxOversleep == 1

\* the intervals and ceilings tried for a single _load_trans call
MaxInterval == 2
MaxLim == 3

\* the sizes tried for a single call of the prediction matrix writer
MaxN == 3
MaxCols == 2
MaxWidth == 2

-----------------------------------------------------------------------------
(* Layer configurations: inst.t, inst.e, inst.c and the layer's attributes. *)
(* t is a sequence of (case, tri, instance_list); e a sequence of          *)
(* (case, tri, tei, instance_list); c maps (case, inst_name) to a column;  *)
(* shape gives what the predict method of (case, inst_name) returns: 0 a   *)
(* one-dimensional array, w >= 1 an array with w columns.                  *)

TEntry(case, tri, trs) == [case |-> case, tri |-> tri, trs |-> trs]
EEntry(case, tri, tei, insts) ==
    [case |-> case, tri |-> tri, tei |-> tei, insts |-> insts]

\* two contiguous folds of one estimator, no preprocessing, full-size buffer
TwoFolds ==
    [n |-> 4, rows |-> 4, cols |-> 1, hasT |-> FALSE, t |-> <<>>,
     e |-> <<EEntry("a", Range(2, 4), Range(0, 2), <<"e1">>),
             EEntry("a", Range(0, 2), Range(2, 4), <<"e1">>)>>,
     c |-> (<<"a", "e1">> :> 0),
     shape |-> (<<"a", "e1">> :> 0),
     cls |-> "stack"]

\* two cases with preprocessing, a buffer that holds only rows [2, 4)
TwoCases ==
    [n |-> 4, rows |-> 2, cols |-> 3, hasT |-> TRUE,
     t |-> <<TEntry("a", Range(0, 2), <<"t1", "t2">>),
             TEntry("b", Scattered(<< <<0, 2>> >>), <<"t1">>)>>,
     e |-> <<EEntry("a", Range(0, 2), Range(2, 4), <<"e1", "e2">>),
             EEntry("b", Scattered(<< <<0, 2>> >>),
                    Scattered(<< <<2, 4>> >>), <<"e1">>)>>,
     c |-> (<<"a", "e1">> :> 0) @@ (<<"a", "e2">> :> 1) @@ (<<"b", "e1">> :> 2),
     shape |-> (<<"a", "e1">> :> 0) @@ (<<"a", "e2">> :> 1)
               @@ (<<"b", "e1">> :> 0),
     cls |-> "blend"]

\* non-contiguous folds named per fold that share the columns [0, 2)
ScatteredFolds ==
    [n |-> 4, rows |-> 4, cols |-> 2, hasT |-> FALSE, t |-> <<>>,
     e |-> <<EEntry("a__0", Scattered(<< <<0, 1>>, <<2, 3>> >>),
                    Scattered(<< <<1, 2>>, <<3, 4>> >>), <<"e1__0">>),
             EEntry("a__1", Scattered(<< <<1, 2>>, <<3, 4>> >>),
                    Scattered(<< <<0, 1>>, <<2, 3>> >>), <<"e1__1">>)>>,
     c |-> (<<"a__0", "e1__0">> :> 0) @@ (<<"a__1", "e1__1">> :> 0),
     shape |-> (<<"a__0", "e1__0">> :> 2) @@ (<<"a__1", "e1__1">> :> 2),
     cls |-> "stack"]

\* column ranges that overlap: e1 fills columns [0, 2), e2 column 1
OverlapCols ==
    [n |-> 3, rows |-> 3, cols |-> 2, hasT |-> FALSE, t |-> <<>>,
     e |-> <<EEntry(NoneCase, Range(0, 1), Range(1, 3), <<"e1", "e2">>)>>,
     c |-> (<<NoneCase, "e1">> :> 0) @@ (<<NoneCase, "e2">> :> 1),
     shape |-> (<<NoneCase, "e1">> :> 2) @@ (<<NoneCase, "e2">> :> 0),
     cls |-> "blend"]

\* held-out folds of one column that overlap in row 2
OverlapFolds ==
    [n |-> 4, rows |-> 4, cols |-> 1, hasT |-> FALSE, t |-> <<>>,
     e |-> <<EEntry("a", Range(3, 4), Range(0, 3), <<"e1">>),
             EEntry("a", Range(0, 2), Range(2, 4), <<"e1">>)>>,
     c |-> (<<"a", "e1">> :> 0),
     shape |-> (<<"a", "e1">> :> 0),
     cls |-> "stack"]

\* preprocessing configured for case a only, estimators also for case b
MissingCase ==
    [n |-> 2, rows |-> 1, cols |-> 2, hasT |-> TRUE,
     t |-> <<TEntry("a", Range(0, 1), <<"t1">>)>>,
     e |-> <<EEntry("a", Range(0, 1), Range(1, 2), <<"e1">>),
             EEntry("b", Range(0, 1), Range(1, 2), <<"e1">>)>>,
     c |-> (<<"a", "e1">> :> 0) @@ (<<"b", "e1">> :> 1),
     shape |-> (<<"a", "e1">> :> 0) @@ (<<"b", "e1">> :> 0),
     cls |-> "blend"]

\* a fit on all data: no held-out fold, nothing predicted
FullPass ==
    [n |-> 3, rows |-> 3, cols |-> 2, hasT |-> TRUE,
     t |-> <<TEntry(NoneCase, NoneSpec, <<"t1">>)>>,
     e |-> <<EEntry(NoneCase, NoneSpec, NoneSpec, <<"e1", "e2">>)>>,
     c |-> (<<NoneCase, "e1">> :> 0) @@ (<<NoneCase, "e2">> :> 1),
     shape |-> (<<NoneCase, "e1">> :> 0) @@ (<<NoneCase, "e2">> :> 0),
     cls |-> "full"]

Topologies ==
    {TwoFolds, TwoCases, ScatteredFolds, OverlapCols, OverlapFolds,
     MissingCase, FullPass}

\* the outcomes of the identity test layer.cls is 'full': false for another
\* class; for a string equal to 'full' it holds when both are the same
\* (interned) object, which the language does not promise
ClsIsFull(cls) == IF cls = "full" THEN BOOLEAN ELSE {FALSE}

\* a topology together with layer.raise_on_exception, layer.scorer (present
\* or None), the ivals handed to fit_est and the outcome of cls is 'full'
WithLayer(top, roe, scorer, ivals, isfull) ==
    [n |-> top.n, rows |-> top.rows, cols |-> top.cols, hasT |-> top.hasT,
     t |-> top.t, e |-> top.e, c |-> top.c, shape |-> top.shape,
     cls |-> top.cls, roe |-> roe, scorer |-> scorer, ivals |-> ivals,
     isfull |-> isfull]

Configs ==
    UNION {{WithLayer(top, roe, scorer, IVALS, isfull) :
                roe \in BOOLEAN, scorer \in BOOLEAN,
                isfull \in ClsIsFull(top.cls)} : top \in Topologies}

-----------------------------------------------------------------------------
(* The tasks of a pass, in submission order *)

\* fit_trans tasks: for case, tri, _, instance_list in inst.t
TTasks(cf) == cf.t

\* fit_est tasks: for case, tri, tei, instance_list in inst.e
\*                for inst_name, instance in instance_list
RECURSIVE FlatE(_, _)
FlatE(e, k) ==
    IF k > Len(e) THEN <<>>
    ELSE [i \in 1..Len(e[k].insts) |->
            [case |-> e[k].case, tri |-> e[k].tri, tei |-> e[k].tei,
             name |-> e[k].insts[i]]] \o FlatE(e, k + 1)
ETasks(cf) == FlatE(cf.e, 1)

TIds == DOMAIN tt
EIds == DOMAIN et

EFileByCase(case, name) == Str(case) \o "__e"
TFileShared(case) == "__t"

\* os.path.join(dir, '%s__t' % case), os.path.join(dir, '%s__%s__e' % ...)
TFile(case) == Str(case) \o "__t"
EFile(case, name) == Str(case) \o "__" \o name \o "__e"

\* the input x (and y) of n rows
XRows(cf) == Arange(0, cf.n)

\* an empty buffer of the configured shape
EmptyPred(cf) ==
    [rows |-> cf.rows, cols |-> cf.cols,
     a |-> [c \in (0..(cf.rows - 1)) \X (0..(cf.cols - 1)) |-> <<>>]]

\* what getattr(inst, attr)(xtemp) returns for task i on the rows xrows
Predict(i, xrows, sh) ==
    [dim |-> IF sh = 0 THEN 1 ELSE 2,
     v |-> [k \in 1..Len(xrows) |->
             [j \in 1..(IF sh = 0 THEN 1 ELSE sh) |-> <<i, xrows[k], j>>]]]

\* LayerState before the pass
PrevLayer ==
    [preprocessing_ |-> [from |-> "prev", v |-> <<>>],
     estimators_ |-> [from |-> "prev", v |-> <<>>],
     scores_ |-> [from |-> "prev", v |-> <<>>]]

NewTT == [pc |-> "pending"]
NewET(roe) ==
    [pc |-> "pending", roe |-> roe, ts |-> 0, slp |-> 0, warned |-> 0,
     trl |-> None, s |-> None, err |-> "", errfile |-> ""]

NewHist ==
    [assembles |-> 0, missed |-> {}, slept |-> {}, saved |-> {},
     sraised |-> {}, wrote |-> {}, last |-> 0, wait0 |-> -1, vis |-> -1,
     end |-> -1]

Init ==
    /\ cfg \in Configs
    /\ fitpc = "start"
    /\ tt = [i \in DOMAIN TTasks(cfg) |-> NewTT]
    /\ et = [i \in DOMAIN ETasks(cfg) |-> NewET(cfg.roe)]
    /\ cache = <<>>
    /\ pred = EmptyPred(cfg)
    /\ writers = [c \in DOMAIN pred.a |-> {}]
    /\ layer = PrevLayer
    /\ warns = {}
    /\ now = 0
    /\ hist = NewHist
    /\ call = <<>>

-----------------------------------------------------------------------------
(* The execution backend: parallel(tasks) runs the submitted calls in any  *)
(* interleaving and returns once all have completed, or raises once one    *)
(* has failed.                                                             *)

ParallelDone(tasks) == \A i \in DOMAIN tasks : tasks[i].pc = "done"
ParallelFailed(tasks) == \E i \in DOMAIN tasks : tasks[i].pc = "failed"

-----------------------------------------------------------------------------
(* fit(inst, X, y, P, dir, parallel) *)

\* preprocess = inst.t is not None
Preprocess(cf) == cf.hasT

FitAfterNoAssemble(pc, preprocess) ==
    CASE pc = "start" -> IF preprocess THEN "phase1" ELSE "phase2"
      [] pc = "phase1" -> "phase2"
      [] pc = "phase2" -> "returned"
      [] OTHER -> pc

\* the statement fit() executes after the one at pc has returned
FitAfter(pc, preprocess) ==
    CASE pc = "start" -> IF preprocess THEN "phase1" ELSE "phase2"
      [] pc = "phase1" -> "phase2"
      [] pc = "phase2" -> "assemble"
      [] pc = "assemble" -> "assemble_e"
      [] pc = "assemble_e" -> "returned"
      [] OTHER -> pc

\* the calls of the first / second parallel(...) have been submitted
TransSubmitted == fitpc = "phase1"
EstSubmittedWithTrans == fitpc \in {"phase1", "phase2"}
EstSubmitted == fitpc = "phase2"

FitBegin ==
    /\ fitpc = "start"
    /\ fitpc' = FitAfter(fitpc, Preprocess(cfg))
    /\ UNCHANGED <<cfg, tt, et, cache, pred, writers, layer, warns, now, hist, call>>

FitPhase1Return ==
    /\ fitpc = "phase1"
    /\ ParallelDone(tt)
    /\ fitpc' = FitAfter(fitpc, Preprocess(cfg))
    /\ UNCHANGED <<cfg, tt, et, cache, pred, writers, layer, warns, now, hist, call>>

FitPhase2Return ==
    /\ fitpc = "phase2"
    /\ ParallelDone(et)
    /\ fitpc' = FitAfter(fitpc, Preprocess(cfg))
    /\ UNCHANGED <<cfg, tt, et, cache, pred, writers, layer, warns, now, hist, call>>

\* a failed task's exception leaves parallel(...) and then fit()
FitRaise ==
    /\ \/ fitpc = "phase1" /\ ParallelFailed(tt)
       \/ fitpc = "phase2" /\ ParallelFailed(et)
    /\ fitpc' = "raised"
    /\ UNCHANGED <<cfg, tt, et, cache, pred, writers, layer, warns, now, hist, call>>

-----------------------------------------------------------------------------
(* fit_trans(dir, case, inst, x, y, idx) *)

TSlice(cf, i) == _slice_array(XRows(cf), <<XRows(cf)>>, TTasks(cf)[i].tri, 0)

\* the fitted [(tr_name, tr), ...] of task i: the names and the rows fitted on
FittedTrans(cf, i) == [trs |-> TTasks(cf)[i].trs, on |-> TSlice(cf, i).x]

TransStart(i) ==
    /\ TransSubmitted
    /\ tt[i].pc = "pending"
    /\ tt' = [tt EXCEPT ![i].pc = IF TSlice(cfg, i).ok THEN "fit" ELSE "failed"]
    /\ UNCHANGED <<cfg, fitpc, et, cache, pred, writers, layer, warns, now, hist, call>>

\* the loop over the transformers: tr.fit and _transform may raise
TransFit(i) ==
    /\ tt[i].pc = "fit"
    /\ \E ok \in BOOLEAN :
         tt' = [tt EXCEPT ![i].pc = IF ok THEN "save" ELSE "failed"]
    /\ UNCHANGED <<cfg, fitpc, et, cache, pred, writers, layer, warns, now, hist, call>>

\* pickle_save(out, f)
TransSave(i) ==
    /\ tt[i].pc = "save"
    /\ cache' = (TFile(TTasks(cfg)[i].case) :> FittedTrans(cfg, i)) @@ cache
    /\ tt' = [tt EXCEPT ![i].pc = "done"]
    /\ hist' = [hist EXCEPT
                  !.wrote = @ \cup {<<TFile(TTasks(cfg)[i].case), "t", i>>}]
    /\ UNCHANGED <<cfg, fitpc, et, pred, writers, layer, warns, now, call>>

-----------------------------------------------------------------------------
(* _load_trans(dir, case, ivals, raise_on_exception), as run by task i *)

TimedOutOnInterval(elapsed, s, lim) == elapsed > s

\* time_() - ts > lim
TimedOut(elapsed, s, lim) == elapsed > lim

FlagAfterWarnKept(roe) == roe

\* raise_on_exception after the warning: raise_on_exception = True
FlagAfterWarn(roe) == TRUE

\* the file the task waits for
LoadFile(cf, i) == TFile(ETasks(cf)[i].case)

\* try: return pickle_load(dir); on OSError: ts = time_()
EstLoad(i) ==
    /\ et[i].pc = "load"
    /\ IF ~Preprocess(cfg)
       THEN /\ et' = [et EXCEPT ![i].pc = "fit", ![i].trl = <<[trs |-> <<>>, on |-> <<>>]>>]
            /\ hist' = hist
       ELSE IF LoadFile(cfg, i) \in DOMAIN cache
       THEN /\ et' = [et EXCEPT ![i].pc = "fit",
                                ![i].trl = <<cache[LoadFile(cfg, i)]>>]
            /\ hist' = [hist EXCEPT !.end = now]
       ELSE /\ et' = [et EXCEPT ![i].pc = "while", ![i].ts = now]
            /\ hist' = [hist EXCEPT !.missed = @ \cup {i}, !.wait0 = now]
    /\ UNCHANGED <<cfg, fitpc, tt, cache, pred, writers, layer, warns, now, call>>

\* while not os.path.exists(dir): sleep(s) ...; return pickle_load(dir)
EstWhile(i) ==
    /\ et[i].pc = "while"
    /\ IF LoadFile(cfg, i) \in DOMAIN cache
       THEN /\ et' = [et EXCEPT ![i].pc = "fit",
                                ![i].trl = <<cache[LoadFile(cfg, i)]>>]
            /\ hist' = [hist EXCEPT !.end = now]
       ELSE /\ et' = [et EXCEPT ![i].pc = "sleep", ![i].slp = now]
            /\ hist' = [hist EXCEPT !.slept = @ \cup {i}]
    /\ UNCHANGED <<cfg, fitpc, tt, cache, pred, writers, layer, warns, now, call>>

\* time passes while some task sleeps; no sleep(s) outlasts s + MaxOversleep
Tick ==
    /\ \E i \in EIds : et[i].pc = "sleep"
    /\ \A i \in EIds :
         et[i].pc = "sleep" => now - et[i].slp < cfg.ivals[1] + MaxOversleep
    /\ now' = now + 1
    /\ UNCHANGED <<cfg, fitpc, tt, et, cache, pred, writers, layer, warns, hist, call>>

\* sleep(s) returns; if time_() - ts > lim: raise, or warn once and restart
EstWake(i) ==
    /\ et[i].pc = "sleep"
    /\ now - et[i].slp >= cfg.ivals[1]
    /\ IF TimedOut(now - et[i].ts, cfg.ivals[1], cfg.ivals[2])
       THEN IF et[i].roe
            THEN /\ et' = [et EXCEPT ![i].pc = "failed",
                                     ![i].err = "ParallelProcessingError",
                                     ![i].errfile = LoadFile(cfg, i)]
                 /\ warns' = warns
                 /\ hist' = [hist EXCEPT !.end = now]
            ELSE /\ et' = [et EXCEPT ![i].pc = "while",
                                     ![i].roe = FlagAfterWarn(et[i].roe),
                                     ![i].ts = now, ![i].warned = @ + 1]
                 /\ warns' = warns \cup
                        {[kind |-> "timeout", task |-> i,
                          what |-> ETasks(cfg)[i].case]}
                 /\ hist' = hist
       ELSE /\ et' = [et EXCEPT ![i].pc = "while"]
            /\ warns' = warns
            /\ hist' = hist
    /\ UNCHANGED <<cfg, fitpc, tt, cache, pred, writers, layer, now, call>>

-----------------------------------------------------------------------------
(* fit_est(dir, case, inst_name, inst, x, y, pred, idx, ...) *)

EColFirst(cf, i) == 0

\* idx = (tri, tei, inst.c[case, inst_name])
ECol(cf, i) == cf.c[<<ETasks(cf)[i].case, ETasks(cf)[i].name>>]
EShape(cf, i) == cf.shape[<<ETasks(cf)[i].case, ETasks(cf)[i].name>>]

\* xtemp, ytemp = _slice_array(x, y, idx[0])
ETrainSlice(cf, i) ==
    _slice_array(XRows(cf), <<XRows(cf)>>, ETasks(cf)[i].tri, 0)

ETestSliceOfTrain(cf, i) ==
    _slice_array(XRows(cf), <<XRows(cf)>>, ETasks(cf)[i].tri, 0)

\* xtemp, ytemp = _slice_array(x, y, tei)
ETestSlice(cf, i) ==
    _slice_array(XRows(cf), <<XRows(cf)>>, ETasks(cf)[i].tei, 0)

\* if idx[1]:
PredictAsked(cf, i) == Truthy(ETasks(cf)[i].tei)

\* p = getattr(inst, attr)(xtemp) on the held-out rows
EPredictions(cf, i) == Predict(i, ETestSlice(cf, i).x, EShape(cf, i))

\* _assign_predictions(pred, p, tei, col, n), n = x.shape[0]
EAssign(cf, i, pred0) ==
    _assign_predictions(pred0, EPredictions(cf, i), ETasks(cf)[i].tei,
                        ECol(cf, i), cf.n)

\* the fitted estimator: its name, the rows and the transformers it was fit on
FittedEst(cf, i, trl) ==
    [name |-> ETasks(cf)[i].name, on |-> ETrainSlice(cf, i).x, trl |-> trl]

\* scorer(ytemp, p)
Score(cf, i) ==
    <<[case |-> ETasks(cf)[i].case, name |-> ETasks(cf)[i].name,
       y |-> ETestSlice(cf, i).y]>>

\* idx[1:] when predictions were made, else (None, idx[2])
CachedIdx(cf, i) ==
    IF PredictAsked(cf, i) THEN <<ETasks(cf)[i].tei, ECol(cf, i)>>
    ELSE <<NoneSpec, ECol(cf, i)>>

\* (inst_name, inst, idx, s)
EBundle(cf, i, trl, sc) ==
    [name |-> ETasks(cf)[i].name, inst |-> FittedEst(cf, i, trl),
     idx |-> CachedIdx(cf, i), s |-> sc]

EstStart(i) ==
    /\ EstSubmitted
    /\ et[i].pc = "pending"
    /\ et' = [et EXCEPT ![i].pc = IF ETrainSlice(cfg, i).ok THEN "load" ELSE "failed",
                        ![i].err = IF ETrainSlice(cfg, i).ok THEN "" ELSE "IndexError"]
    /\ UNCHANGED <<cfg, fitpc, tt, cache, pred, writers, layer, warns, now, hist, call>>

AfterFitSwallowed(ok) == IF ok THEN "predict" ELSE "save"

\* where fit_est continues after inst.fit(xtemp, ytemp) returned or raised
AfterFit(ok) == IF ok THEN "predict" ELSE "failed"

\* the transforms of the training slice and inst.fit(xtemp, ytemp) may raise
EstFit(i) ==
    /\ et[i].pc = "fit"
    /\ \E ok \in BOOLEAN :
         et' = [et EXCEPT ![i].pc = AfterFit(ok),
                          ![i].err = IF ok THEN "" ELSE "FitFailure"]
    /\ UNCHANGED <<cfg, fitpc, tt, cache, pred, writers, layer, warns, now, hist, call>>

\* the cells of the buffer that differ between two of its values
Changed(p0, p1) == {c \in DOMAIN p0.a : p0.a[c] # p1.a[c]}

\* lines 177-189: slice the held-out rows, predict, write the buffer
EstPredict(i) ==
    /\ et[i].pc = "predict"
    /\ IF ~PredictAsked(cfg, i)
       THEN /\ et' = [et EXCEPT ![i].pc = "save", ![i].s = None]
            /\ UNCHANGED <<pred, writers>>
       ELSE IF ~ETestSlice(cfg, i).ok
       THEN /\ et' = [et EXCEPT ![i].pc = "failed", ![i].err = "IndexError"]
            /\ UNCHANGED <<pred, writers>>
       ELSE \E ok \in BOOLEAN :
              IF ~ok
              THEN /\ et' = [et EXCEPT ![i].pc = "failed",
                                       ![i].err = "PredictFailure"]
                   /\ UNCHANGED <<pred, writers>>
              ELSE LET res == EAssign(cfg, i, pred)
                   IN  /\ pred' = res.pred
                       /\ writers' =
                            [c \in DOMAIN writers |->
                               IF c \in Changed(pred, res.pred)
                               THEN writers[c] \cup {i} ELSE writers[c]]
                       /\ et' = [et EXCEPT
                                   ![i].pc = IF res.ok THEN "score" ELSE "failed",
                                   ![i].err = res.err]
    /\ UNCHANGED <<cfg, fitpc, tt, cache, layer, warns, now, hist, call>>

_score_predictions_unguarded(scorer, ok, value) ==
    IF ~scorer THEN [raised |-> FALSE, s |-> None, warn |-> FALSE]
    ELSE IF ok THEN [raised |-> FALSE, s |-> value, warn |-> FALSE]
    ELSE [raised |-> TRUE, s |-> None, warn |-> FALSE]

\* _score_predictions(y, p, scorer, name, inst_name): scorer is present or
\* None, ok tells whether scorer(y, p) returns (value) or raises
_score_predictions(scorer, ok, value) ==
    IF ~scorer THEN [raised |-> FALSE, s |-> None, warn |-> FALSE]
    ELSE IF ok THEN [raised |-> FALSE, s |-> value, warn |-> FALSE]
    ELSE [raised |-> FALSE, s |-> None, warn |-> TRUE]

\* s = _score_predictions(ytemp, p, scorer, name, inst_name)
EstScore(i) ==
    /\ et[i].pc = "score"
    /\ \E ok \in (IF cfg.scorer THEN BOOLEAN ELSE {TRUE}) :
         LET res == _score_predictions(cfg.scorer, ok, Score(cfg, i))
         IN  /\ et' = [et EXCEPT
                         ![i].pc = IF res.raised THEN "failed" ELSE "save",
                         ![i].err = IF res.raised THEN "ScoringFailure" ELSE "",
                         ![i].s = res.s]
             /\ warns' = IF res.warn
                         THEN warns \cup {[kind |-> "score", task |-> i,
                                           what |-> ETasks(cfg)[i].name]}
                         ELSE warns
             /\ hist' = IF ok THEN hist
                        ELSE [hist EXCEPT !.sraised = @ \cup {i}]
    /\ UNCHANGED <<cfg, fitpc, tt, cache, pred, writers, layer, now, call>>

\* pickle_save((inst_name, inst, idx, s), f)
EstSave(i) ==
    /\ et[i].pc = "save"
    /\ cache' = (EFile(ETasks(cfg)[i].case, ETasks(cfg)[i].name)
                   :> EBundle(cfg, i, et[i].trl, et[i].s)) @@ cache
    /\ et' = [et EXCEPT ![i].pc = "done"]
    /\ hist' = [hist EXCEPT
                  !.saved = @ \cup {i},
                  !.last = i,
                  !.wrote = @ \cup {<<EFile(ETasks(cfg)[i].case,
                                           ETasks(cfg)[i].name), "e", i>>}]
    /\ UNCHANGED <<cfg, fitpc, tt, pred, writers, layer, warns, now, call>>

-----------------------------------------------------------------------------
(* _assemble(dir, instance_list, suffix) and assemble(inst) *)

\* suffix 't': None when inst.t is None, else [(case, pickle_load(...)), ...]
AssembleTrans(cf, files) ==
    IF ~Preprocess(cf) THEN [ok |-> TRUE, v |-> [from |-> "none", v |-> <<>>]]
    ELSE IF \A k \in DOMAIN cf.t : TFile(cf.t[k].case) \in DOMAIN files
    THEN [ok |-> TRUE,
          v |-> [from |-> "cache",
                 v |-> [k \in DOMAIN cf.t |->
                          <<cf.t[k].case, files[TFile(cf.t[k].case)]>>]]]
    ELSE [ok |-> FALSE, v |-> [from |-> "none", v |-> <<>>]]

\* case = '%s___' % tup[0] if tup[0] is not None else '___'
ScoreLabel(case, name) ==
    (IF case # NoneCase THEN Str(case) \o "___" ELSE "___") \o name

\* the tasks of cf whose estimator file is in files
PresentTasks(cf, files) ==
    SelectSeq(ETasks(cf), LAMBDA t : EFile(t.case, t.name) \in DOMAIN files)

AssembleEstsSkipMissing(cf, files) ==
    LET tasks == PresentTasks(cf, files)
        file(k) == EFile(tasks[k].case, tasks[k].name)
    IN  [ok |-> TRUE,
         ests |-> [k \in DOMAIN tasks |->
                     <<tasks[k].case,
                       [name |-> files[file(k)].name,
                        inst |-> files[file(k)].inst,
                        idx |-> files[file(k)].idx]>>],
         scores |-> [k \in DOMAIN tasks |->
                       <<Str(tasks[k].case) \o "___" \o tasks[k].name,
                         files[file(k)].s>>]]

AssembleEstsAppending(cf, files) ==
    LET tasks == ETasks(cf)
        file(k) == EFile(tasks[k].case, tasks[k].name)
    IN  IF \A k \in DOMAIN tasks : file(k) \in DOMAIN files
        THEN [ok |-> TRUE,
              ests |-> layer.estimators_.v \o
                       [k \in DOMAIN tasks |->
                          <<tasks[k].case,
                            [name |-> files[file(k)].name,
                             inst |-> files[file(k)].inst,
                             idx |-> files[file(k)].idx]>>],
              scores |-> [k \in DOMAIN tasks |->
                            <<Str(tasks[k].case) \o "___" \o tasks[k].name,
                              files[file(k)].s>>]]
        ELSE [ok |-> FALSE, ests |-> <<>>, scores |-> <<>>]

\* suffix 'e': (ests_, scores_) over every (tup, etup)
AssembleEsts(cf, files) ==
    LET tasks == ETasks(cf)
        file(k) == EFile(tasks[k].case, tasks[k].name)
    IN  IF \A k \in DOMAIN tasks : file(k) \in DOMAIN files
        THEN [ok |-> TRUE,
              ests |-> [k \in DOMAIN tasks |->
                          <<tasks[k].case,
                            [name |-> files[file(k)].name,
                             inst |-> files[file(k)].inst,
                             idx |-> files[file(k)].idx]>>],
              scores |-> [k \in DOMAIN tasks |->
                            <<ScoreLabel(tasks[k].case, tasks[k].name),
                              files[file(k)].s>>]]
        ELSE [ok |-> FALSE, ests |-> <<>>, scores |-> <<>>]

\* inst._build_scores(s)
BuildScores(s) == s

\* inst.layer.scorer is not None and inst.layer.cls is not 'full'
KeepScores(cf) == cf.scorer /\ ~cf.isfull

\* inst.layer.preprocessing_ = _assemble(inst.dir, inst.t, 't')
AssembleT ==
    /\ fitpc = "assemble"
    /\ hist' = [hist EXCEPT !.assembles = @ + 1]
    /\ LET res == AssembleTrans(cfg, cache)
       IN  IF res.ok
           THEN /\ layer' = [layer EXCEPT !.preprocessing_ = res.v]
                /\ fitpc' = FitAfter(fitpc, Preprocess(cfg))
           ELSE /\ layer' = layer
                /\ fitpc' = "raised"
    /\ UNCHANGED <<cfg, tt, et, cache, pred, writers, warns, now, call>>

\* inst.layer.estimators_, s = _assemble(inst.dir, inst.e, 'e'), and scores_
AssembleE ==
    /\ fitpc = "assemble_e"
    /\ LET res == AssembleEsts(cfg, cache)
       IN  IF res.ok
           THEN /\ layer' =
                     [layer EXCEPT
                        !.estimators_ = [from |-> "cache", v |-> res.ests],
                        !.scores_ = IF KeepScores(cfg)
                                    THEN [from |-> "cache",
                                          v |-> BuildScores(res.scores)]
                                    ELSE @]
                /\ fitpc' = FitAfter(fitpc, Preprocess(cfg))
           ELSE /\ layer' = layer
                /\ fitpc' = "raised"
    /\ UNCHANGED <<cfg, tt, et, cache, pred, writers, warns, now, hist, call>>

-----------------------------------------------------------------------------
(* The fit pass *)

Next ==
    \/ FitBegin
    \/ FitPhase1Return
    \/ FitPhase2Return
    \/ FitRaise
    \/ AssembleT
    \/ AssembleE
    \/ Tick
    \/ \E i \in TIds : TransStart(i)
    \/ \E i \in TIds : TransFit(i)
    \/ \E i \in TIds : TransSave(i)
    \/ \E i \in EIds : EstStart(i)
    \/ \E i \in EIds : EstLoad(i)
    \/ \E i \in EIds : EstWhile(i)
    \/ \E i \in EIds : EstWake(i)
    \/ \E i \in EIds : EstFit(i)
    \/ \E i \in EIds : EstPredict(i)
    \/ \E i \in EIds : EstScore(i)
    \/ \E i \in EIds : EstSave(i)

Spec == Init /\ [][Next]_vars

-----------------------------------------------------------------------------
(* What the configuration denotes, stated without the code's index helpers *)

\* the dataset rows a fold specification selects
FoldRows(spec, n) ==
    IF spec.kind = "none" THEN {}
    ELSE IF spec.kind = "all" THEN 0..(n - 1)
    ELSE UNION {spec.ivs[k][1]..(spec.ivs[k][2] - 1) : k \in DOMAIN spec.ivs}

\* the columns assigned to (case, inst_name)
ColsOf(cf, key) ==
    cf.c[key]..(cf.c[key] + (IF cf.shape[key] = 0 THEN 1 ELSE cf.shape[key]) - 1)
TaskKey(cf, i) == <<ETasks(cf)[i].case, ETasks(cf)[i].name>>
HeldOut(cf, i) == FoldRows(ETasks(cf)[i].tei, cf.n)

\* the dataset rows the buffer stands for: [n - buffer.rows, n)
BufferRows(cf) == (cf.n - cf.rows)..(cf.n - 1)

Running(pc) == pc \notin {"done", "failed"}
Started(pc) == pc # "pending"

\* the case of estimator task i has a fit_trans task
HasTransTask(cf, i) ==
    \E j \in DOMAIN TTasks(cf) : TTasks(cf)[j].case = ETasks(cf)[i].case

-----------------------------------------------------------------------------
\* C1: with preprocessing, no fit_est task has started unless every fit_trans
\* task of the pass is done and its '<case>__t' file is in the cache; an
\* estimator task whose case has a fit_trans task never misses the file on
\* its first read and never sleeps.
C1_PhaseBarrier ==
    Preprocess(cfg) =>
      /\ (\E i \in EIds : Started(et[i].pc)) =>
            \A j \in TIds : /\ tt[j].pc = "done"
                            /\ TFile(TTasks(cfg)[j].case) \in DOMAIN cache
      /\ \A i \in EIds :
            HasTransTask(cfg, i) => i \notin hist.missed /\ i \notin hist.slept

\* an estimator task of a preprocessed case has read its transformers while
\* another estimator task has not started yet
C1_Witness ==
    /\ Preprocess(cfg)
    /\ \E i, j \in EIds :
         /\ HasTransTask(cfg, i)
         /\ et[i].pc = "fit"
         /\ et[i].trl # None
         /\ et[j].pc = "pending"

\* C2: assemble runs at most once, and exactly once before fit returns; it
\* runs only when every fit_est task is done; while any fit_trans or fit_est
\* task is pending or running, LayerState is what it was before the pass.
C2_AssembleOnceAfterAll ==
    /\ hist.assembles <= 1
    /\ fitpc = "returned" => hist.assembles = 1
    /\ (hist.assembles > 0 \/ fitpc \in {"assemble", "assemble_e", "returned"})
          => /\ ParallelDone(et)
             /\ Preprocess(cfg) => ParallelDone(tt)
    /\ ((\E j \in TIds : Running(tt[j].pc)) \/ (\E i \in EIds : Running(et[i].pc)))
          => layer = PrevLayer

\* fit has returned with the lists of more than one estimator task installed
C2_Witness ==
    /\ fitpc = "returned"
    /\ hist.assembles = 1
    /\ layer.estimators_.from = "cache"
    /\ Len(layer.estimators_.v) > 1

\* the proviso of C3
DisjointColumns(cf) ==
    \A k1, k2 \in DOMAIN cf.c :
        k1 # k2 => ColsOf(cf, k1) \cap ColsOf(cf, k2) = {}
FoldsApart(cf) ==
    \A i, j \in DOMAIN ETasks(cf) :
        (i # j /\ ColsOf(cf, TaskKey(cf, i)) \cap ColsOf(cf, TaskKey(cf, j)) # {})
            => HeldOut(cf, i) \cap HeldOut(cf, j) = {}
FoldsInBuffer(cf) ==
    \A i \in DOMAIN ETasks(cf) : HeldOut(cf, i) \subseteq BufferRows(cf)

\* C3: when distinct (case, inst_name) have disjoint column ranges, tasks that
\* share a column range have disjoint held-out folds, and all held-out folds
\* lie in [n - buffer.rows, n), no buffer cell is written by two tasks.
C3_NoCellWrittenTwice ==
    (DisjointColumns(cfg) /\ FoldsApart(cfg) /\ FoldsInBuffer(cfg))
        => \A c \in DOMAIN writers : Cardinality(writers[c]) <= 1

\* two tasks of a configuration that meets the proviso have both written
C3_Witness ==
    /\ DisjointColumns(cfg) /\ FoldsApart(cfg) /\ FoldsInBuffer(cfg)
    /\ \E c1, c2 \in DOMAIN writers :
         /\ writers[c1] # {} /\ writers[c2] # {}
         /\ writers[c1] # writers[c2]

\* the tasks whose column range holds column c, and whether their held-out
\* folds partition the rows the buffer stands for
ColTasks(cf, c) == {i \in DOMAIN ETasks(cf) : c \in ColsOf(cf, TaskKey(cf, i))}
FoldsPartition(cf, c) ==
    /\ ColTasks(cf, c) # {}
    /\ \A i, j \in ColTasks(cf, c) : i # j => HeldOut(cf, i) \cap HeldOut(cf, j) = {}
    /\ UNION {HeldOut(cf, i) : i \in ColTasks(cf, c)} = BufferRows(cf)

\* C4: after a successful fit, in a column whose tasks' held-out folds
\* partition [r, n), buffer row i holds the prediction for dataset row i + r
\* made by the task whose held-out fold contains i + r; none is unwritten.
C4_HeldOutPredictionsInPlace ==
    fitpc = "returned" =>
      \A c \in 0..(cfg.cols - 1) :
        FoldsPartition(cfg, c) =>
          \A i \in 0..(cfg.rows - 1) :
            \E k \in ColTasks(cfg, c) :
              /\ (i + cfg.n - cfg.rows) \in HeldOut(cfg, k)
              /\ pred.a[<<i, c>>] =
                    << <<k, i + cfg.n - cfg.rows, c - cfg.c[TaskKey(cfg, k)] + 1>> >>

\* fit returned for a column filled by two folds, or for a buffer that starts
\* at dataset row r > 0
C4_Witness ==
    /\ fitpc = "returned"
    /\ \E c \in 0..(cfg.cols - 1) :
         /\ FoldsPartition(cfg, c)
         /\ Cardinality(ColTasks(cfg, c)) > 1
         /\ \A i \in 0..(cfg.rows - 1) : pred.a[<<i, c>>] # <<>>

-----------------------------------------------------------------------------
\* no other task of the pass writes the estimator file of task i
OwnFile(cf, i) ==
    \A j \in DOMAIN ETasks(cf) :
        j # i => EFile(ETasks(cf)[j].case, ETasks(cf)[j].name)
                    # EFile(ETasks(cf)[i].case, ETasks(cf)[i].name)

\* a task whose scorer raised: it has not failed, its warning is recorded and
\* its score is None; once fit has returned and the task's file is its own,
\* its fitted estimator is in estimators_ and its score label carries None
C9_ScorerRaised(i) ==
    /\ et[i].pc \in {"save", "done"}
    /\ et[i].err = ""
    /\ et[i].s = None
    /\ [kind |-> "score", task |-> i, what |-> ETasks(cfg)[i].name] \in warns
    /\ (fitpc = "returned" /\ OwnFile(cfg, i)) =>
          /\ layer.estimators_.v[i] =
                <<ETasks(cfg)[i].case,
                  [name |-> ETasks(cfg)[i].name,
                   inst |-> [name |-> ETasks(cfg)[i].name,
                             on |-> ETrainSlice(cfg, i).x, trl |-> et[i].trl],
                   idx |-> <<ETasks(cfg)[i].tei, cfg.c[TaskKey(cfg, i)]>>]>>
          /\ KeepScores(cfg) =>
                layer.scores_.v[i] =
                   <<ScoreLabel(ETasks(cfg)[i].case, ETasks(cfg)[i].name), None>>

\* a task that scored without the scorer raising keeps its own score,
\* whatever happened to the scorer in other tasks
C9_OthersKeepScore(i) ==
    (et[i].pc \in {"save", "done"} /\ i \notin hist.sraised
        /\ cfg.scorer /\ HeldOut(cfg, i) # {})
      => et[i].s = <<[case |-> ETasks(cfg)[i].case, name |-> ETasks(cfg)[i].name,
                     y |-> ETestSlice(cfg, i).y]>>

\* the save of a task whose scorer raised stores its bundle with score None
C9_SavesBundle(i) ==
    (i \in hist.sraised /\ et[i].pc = "save" /\ et'[i].pc # "save") =>
        LET f == EFile(ETasks(cfg)[i].case, ETasks(cfg)[i].name)
        IN  /\ et'[i].pc = "done"
            /\ f \in DOMAIN cache'
            /\ cache'[f].name = ETasks(cfg)[i].name
            /\ cache'[f].inst.name = ETasks(cfg)[i].name
            /\ cache'[f].idx = <<ETasks(cfg)[i].tei, cfg.c[TaskKey(cfg, i)]>>
            /\ cache'[f].s = None

TransFailed(j) == tt[j].pc = "failed"
EstRaised(i) == et[i].err \in {"FitFailure", "PredictFailure"}

\* C10: a failure of a wrapped fit, transform or predict call aborts the pass:
\* after a failure in the preprocess-fit phase no estimator-fit task starts;
\* after a failure in either phase assemble is not invoked, fit does not
\* return and LayerState keeps its value; the failing estimator-fit task
\* writes no cache entry; a failed task is never run again.
C10_FailureAbortsPass ==
    /\ []((\E j \in TIds : TransFailed(j)) =>
            \A i \in EIds : et[i].pc = "pending")
    /\ []((\E j \in TIds : TransFailed(j)) \/ (\E i \in EIds : EstRaised(i))
            => /\ hist.assembles = 0
               /\ fitpc \in {"phase1", "phase2", "raised"}
               /\ layer = PrevLayer)
    /\ [](\A i \in EIds : EstRaised(i) =>
            et[i].pc = "failed" /\ i \notin hist.saved)
    /\ [][/\ \A i \in EIds : et[i].pc = "failed" => et'[i].pc = "failed"
          /\ \A j \in TIds : tt[j].pc = "failed" => tt'[j].pc = "failed"
          /\ fitpc = "raised" => fitpc' = "raised"]_vars

\* fit has raised after an estimator's fit failed while another task of the
\* pass had already saved its bundle
C10_Witness ==
    /\ fitpc = "raised"
    /\ \E i, j \in EIds :
         /\ et[i].err = "FitFailure"
         /\ j \in hist.saved

\* fit has raised after a transformer's fit failed
C10_WitnessTrans ==
    /\ fitpc = "raised"
    /\ \E j \in TIds : TransFailed(j)

-----------------------------------------------------------------------------
(* A single call of _load_trans: the estimator task of one preprocessed    *)
(* case waits for '<case>__t' while the file may become visible at any     *)
(* moment of the call.                                                     *)

WaitLayer ==
    [n |-> 2, rows |-> 1, cols |-> 1, hasT |-> TRUE,
     t |-> <<TEntry("a", Range(0, 1), <<"t1">>)>>,
     e |-> <<EEntry("a", Range(0, 1), Range(1, 2), <<"e1">>)>>,
     c |-> (<<"a", "e1">> :> 0),
     shape |-> (<<"a", "e1">> :> 0),
     cls |-> "blend"]

WaitConfigs ==
    {WithLayer(WaitLayer, roe, FALSE, <<s, lim>>, FALSE) :
        roe \in BOOLEAN, s \in 1..MaxInterval, lim \in 1..MaxLim}

\* the transformer list the producer stores
WaitValue == [trs |-> <<"t1">>, on |-> <<0>>]

InitWait ==
    /\ cfg \in WaitConfigs
    /\ fitpc = "idle"
    /\ tt = <<>>
    /\ et = <<[NewET(cfg.roe) EXCEPT !.pc = "load"]>>
    /\ cache \in {<<>>, (LoadFile(cfg, 1) :> WaitValue)}
    /\ pred = EmptyPred(cfg)
    /\ writers = [c \in DOMAIN pred.a |-> {}]
    /\ layer = PrevLayer
    /\ warns = {}
    /\ now = 0
    /\ hist = NewHist
    /\ call = <<>>

\* the file becomes visible during the call, and stays
Appear ==
    /\ et[1].pc \in {"load", "while", "sleep"}
    /\ LoadFile(cfg, 1) \notin DOMAIN cache
    /\ cache' = (LoadFile(cfg, 1) :> WaitValue) @@ cache
    /\ hist' = [hist EXCEPT !.vis = now]
    /\ UNCHANGED <<cfg, fitpc, tt, et, pred, writers, layer, warns, now, call>>

NextWait ==
    \/ EstLoad(1)
    \/ EstWhile(1)
    \/ EstWake(1)
    \/ Tick
    \/ Appear

SpecWait == InitWait /\ [][NextWait]_vars

\* every statement of the call is eventually executed, every sleep ends and
\* the clock advances while the task sleeps
SpecWaitFair ==
    /\ SpecWait
    /\ WF_vars(EstLoad(1))
    /\ WF_vars(EstWhile(1))
    /\ WF_vars(EstWake(1))
    /\ WF_vars(Tick)

WaitReturned == et[1].pc = "fit"
WaitRaised == et[1].pc = "failed"
NeverVisible == LoadFile(cfg, 1) \notin DOMAIN cache
WaitLim == cfg.ivals[2]

\* C6: in raise mode, while the entry has never been visible, _load_trans
\* returns no value; when it fails it fails with ParallelProcessingError
\* naming the '<case>__t' file, without a warning, and not before lim has
\* elapsed since the wait loop began; and it does fail.
C6_RaiseModeTimeout ==
    /\ []((cfg.roe /\ NeverVisible) =>
            /\ ~WaitReturned
            /\ WaitRaised =>
                 /\ et[1].err = "ParallelProcessingError"
                 /\ et[1].errfile = "a__t"
                 /\ et[1].warned = 0 /\ warns = {}
                 /\ hist.end - hist.wait0 >= WaitLim)
    /\ <>(~cfg.roe \/ ~NeverVisible \/ WaitRaised)

\* in raise mode the call has failed on an entry that never appeared
C6_Witness == cfg.roe /\ NeverVisible /\ WaitRaised /\ hist.wait0 >= 0

\* the step that ends a sleep with more than lim elapsed
Breach == et[1].pc = "sleep" /\ et'[1].pc # "sleep" /\ now - et[1].ts > WaitLim

\* C7: in warn mode, for an entry that never becomes visible, the first breach
\* of lim emits one warning, sets the local raise flag and restarts the
\* elapsed time; the second breach fails with ParallelProcessingError; there
\* is never a second warning, and the call always terminates.
C7_WarnModeOneGrace ==
    /\ [](~cfg.roe =>
            /\ et[1].warned <= 1
            /\ Cardinality(warns) = et[1].warned
            /\ NeverVisible =>
                 /\ ~WaitReturned
                 /\ WaitRaised =>
                      /\ et[1].err = "ParallelProcessingError"
                      /\ et[1].warned = 1 /\ et[1].roe
                      /\ hist.end - hist.wait0 >= 2 * WaitLim)
    /\ [][(~cfg.roe /\ Breach) =>
            IF ~et[1].roe
            THEN /\ et'[1].pc = "while"
                 /\ et'[1].roe
                 /\ et'[1].ts = now
                 /\ et'[1].warned = 1
                 /\ warns' = {[kind |-> "timeout", task |-> 1, what |-> "a"]}
            ELSE /\ WaitRaised'
                 /\ warns' = warns]_vars
    /\ <>(cfg.roe \/ WaitReturned \/ WaitRaised)

\* in warn mode the call has failed on an entry that never appeared
C7_Witness ==
    ~cfg.roe /\ NeverVisible /\ WaitRaised /\ et[1].warned = 1

\* the entry became visible at time t < lim after the wait loop began
VisibleAt == hist.vis - hist.wait0
VisibleBeforeLim ==
    hist.wait0 >= 0 /\ hist.vis >= hist.wait0 /\ VisibleAt < WaitLim

\* C8: an entry that becomes visible at t < lim after the wait began is
\* returned: the call does not raise the timeout error, and when it returns
\* it has waited at least t.
C8_VisibleBeforeLimReturns ==
    VisibleBeforeLim =>
      /\ ~WaitRaised
      /\ WaitReturned => hist.end - hist.wait0 >= VisibleAt

\* the part of C8 the code meets: in warn mode such a call never raises, in
\* both modes a call that returns has waited at least t, and the call ends
C8_WarnModeReturns ==
    /\ []((VisibleBeforeLim /\ ~cfg.roe) => ~WaitRaised)
    /\ []((VisibleBeforeLim /\ WaitReturned) =>
            /\ hist.end - hist.wait0 >= VisibleAt
            /\ et[1].trl = <<WaitValue>>)
    /\ <>(WaitReturned \/ WaitRaised)

-----------------------------------------------------------------------------
(* A single call of the prediction matrix writer: _assign_predictions as   *)
(* fit_est and predict_fold_est call it, and the assignment of predict_est.*)
(* The fold specifications are those of held-out rows of the buffer.       *)

\* a buffer whose cells all hold an earlier value
OldCell == << <<0, 0 - 1, 0>> >>
FilledPred(rows, cols) ==
    [rows |-> rows, cols |-> cols,
     a |-> [c \in (0..(rows - 1)) \X (0..(cols - 1)) |-> OldCell]]

\* fold specifications within the dataset rows [r, n)
WriterSpecs(r, n) ==
    {AllSpec, NoneSpec, Scattered(<<>>)}
    \cup {Range(a, b) : a \in r..(n - 1), b \in (r + 1)..n}
    \cup {Scattered(<< <<a, b>> >>) : a \in r..(n - 1), b \in (r + 1)..n}
    \cup {Scattered(<< <<a, a + 1>>, <<b, b + 1>> >>) :
            a \in r..(n - 1), b \in r..(n - 1)}

WriterCalls ==
    {[fn |-> fn, n |-> n, tei |-> tei, col |-> col, sh |-> sh,
      done |-> FALSE, ok |-> FALSE, before |-> FilledPred(rows, cols)] :
        fn \in {"_assign_predictions", "predict_est"},
        n \in 2..MaxN, rows \in 1..MaxN, cols \in 1..MaxCols,
        tei \in WriterSpecs(0, MaxN), col \in 0..(MaxCols - 1),
        sh \in 0..MaxWidth}

\* the caller's p: predictions for the rows of x that tei selects
WriterP(cl) ==
    Predict(1, _slice_array(Arange(0, cl.n), None, cl.tei, 0).x, cl.sh)

InitWriter ==
    /\ call \in {cl \in WriterCalls :
                   /\ cl.before.rows <= cl.n
                   /\ cl.col < cl.before.cols
                   /\ cl.tei \in WriterSpecs(cl.n - cl.before.rows, cl.n)
                   /\ cl.fn = "predict_est" => cl.tei = AllSpec}
    /\ cfg = [n |-> call.n, rows |-> call.before.rows, cols |-> call.before.cols]
    /\ pred = call.before
    /\ fitpc = "idle"
    /\ tt = <<>>
    /\ et = <<>>
    /\ cache = <<>>
    /\ writers = [c \in DOMAIN pred.a |-> {}]
    /\ layer = PrevLayer
    /\ warns = {}
    /\ now = 0
    /\ hist = NewHist

\* _assign_predictions(pred, p, tei, col, n)
WriterAssign ==
    /\ ~call.done
    /\ call.fn = "_assign_predictions"
    /\ _slice_array(Arange(0, call.n), None, call.tei, 0).ok
    /\ LET res == _assign_predictions(pred, WriterP(call), call.tei, call.col, call.n)
       IN  /\ pred' = res.pred
           /\ call' = [call EXCEPT !.done = TRUE, !.ok = res.ok]
    /\ UNCHANGED <<cfg, fitpc, tt, et, cache, writers, layer, warns, now, hist>>

\* predict_est: pred[:, col] = p or pred[:, col:(col + p.shape[1])] = p
predict_est_write(pred0, p, col) ==
    AssignAt(pred0, p, Arange(0, pred0.rows), col)

WriterPredictEst ==
    /\ ~call.done
    /\ call.fn = "predict_est"
    /\ LET res == predict_est_write(pred, WriterP(call), call.col)
       IN  /\ pred' = res.pred
           /\ call' = [call EXCEPT !.done = TRUE, !.ok = res.ok]
    /\ UNCHANGED <<cfg, fitpc, tt, et, cache, writers, layer, warns, now, hist>>

NextWriter ==
    \/ WriterAssign
    \/ WriterPredictEst

SpecWriter == InitWriter /\ [][NextWriter]_vars

\* the target region of a call: the columns [col, col + width) and the rows
\* of the fold specification shifted by r = n - buffer.rows
TargetCols(cl) == cl.col..(cl.col + (IF cl.sh = 0 THEN 1 ELSE cl.sh) - 1)
TargetRows(cl) == {i - (cl.n - cl.before.rows) : i \in FoldRows(cl.tei, cl.n)}

-----------------------------------------------------------------------------
(* assemble(inst) called on a cache directory that holds any part of the   *)
(* files the configuration names, and called once more on the same         *)
(* directory.                                                              *)

\* the files _assemble reads for suffix 't' and for suffix 'e'
RequiredT(cf) ==
    IF Preprocess(cf) THEN {TFile(cf.t[k].case) : k \in DOMAIN cf.t} ELSE {}
RequiredE(cf) ==
    {EFile(ETasks(cf)[k].case, ETasks(cf)[k].name) : k \in DOMAIN ETasks(cf)}

\* the last task in submission order that writes file f
LastTWriter(cf, f) ==
    CHOOSE k \in DOMAIN cf.t :
        /\ TFile(cf.t[k].case) = f
        /\ \A m \in DOMAIN cf.t : TFile(cf.t[m].case) = f => m <= k
LastEWriter(cf, f) ==
    CHOOSE k \in DOMAIN ETasks(cf) :
        /\ EFile(ETasks(cf)[k].case, ETasks(cf)[k].name) = f
        /\ \A m \in DOMAIN ETasks(cf) :
              EFile(ETasks(cf)[m].case, ETasks(cf)[m].name) = f => m <= k

\* the transformer list task i fits with, and the score it stores
StoredTrl(cf, i) ==
    IF Preprocess(cf) /\ TFile(ETasks(cf)[i].case) \in RequiredT(cf)
    THEN <<FittedTrans(cf, LastTWriter(cf, TFile(ETasks(cf)[i].case)))>>
    ELSE <<[trs |-> <<>>, on |-> <<>>]>>
StoredScore(cf, i) ==
    IF cf.scorer /\ PredictAsked(cf, i) THEN Score(cf, i) ELSE None

\* a cache directory holding the files D as fit_trans and fit_est save them
StoredCache(cf, D) ==
    [f \in D |->
       IF f \in RequiredT(cf) THEN FittedTrans(cf, LastTWriter(cf, f))
       ELSE EBundle(cf, LastEWriter(cf, f), StoredTrl(cf, LastEWriter(cf, f)),
                    StoredScore(cf, LastEWriter(cf, f)))]

InitAssemble ==
    /\ cfg \in Configs
    /\ fitpc = "assemble"
    /\ tt = <<>>
    /\ et = <<>>
    /\ cache \in {StoredCache(cfg, D) :
                    D \in SUBSET (RequiredT(cfg) \cup RequiredE(cfg))}
    /\ pred = EmptyPred(cfg)
    /\ writers = [c \in DOMAIN pred.a |-> {}]
    /\ layer = PrevLayer
    /\ warns = {}
    /\ now = 0
    /\ hist = NewHist
    /\ call = <<>>

\* the caller runs assemble(inst) again after the first call has returned or
\* raised; call keeps LayerState and the outcome of the first call
AssembleAgain ==
    /\ fitpc \in {"returned", "raised"}
    /\ hist.assembles = 1
    /\ call' = <<[layer |-> layer, outcome |-> fitpc]>>
    /\ fitpc' = "assemble"
    /\ UNCHANGED <<cfg, tt, et, cache, pred, writers, layer, warns, now, hist>>

NextAssemble ==
    \/ AssembleT
    \/ AssembleE
    \/ AssembleAgain

SpecAssemble == InitAssemble /\ [][NextAssemble]_vars

\* a call of assemble runs to its end
SpecAssembleFair ==
    /\ SpecAssemble
    /\ WF_vars(AssembleT)
    /\ WF_vars(AssembleE)

MissingT == RequiredT(cfg) \ DOMAIN cache # {}
MissingE == RequiredE(cfg) \ DOMAIN cache # {}

\* C11: when a '<case>__t' or '<case>__<inst_name>__e' file the configuration
\* names is absent, assemble never returns: the read that misses the file
\* raises in the same step, with no sleep and no second read, and the call
\* does end raised; a call that returns has installed a transformer list for
\* every case of inst.t and an estimator entry for every task of inst.e.
C11_MissingEntryIsFatal ==
    /\ []((MissingT \/ MissingE) => fitpc # "returned")
    /\ [][(fitpc = "assemble" /\ MissingT)
            => (fitpc' = "raised" /\ now' = now /\ cache' = cache)]_vars
    /\ [][(fitpc = "assemble_e" /\ MissingE)
            => (fitpc' = "raised" /\ now' = now /\ cache' = cache)]_vars
    /\ [](fitpc = "returned" =>
            /\ Len(layer.estimators_.v) = Len(ETasks(cfg))
            /\ Preprocess(cfg) => Len(layer.preprocessing_.v) = Len(cfg.t))
    /\ ((MissingT \/ MissingE) ~> fitpc = "raised")

\* assemble has raised on a missing estimator file after every transformer
\* file was read
C11_Witness ==
    /\ fitpc = "raised"
    /\ Preprocess(cfg) /\ ~MissingT /\ MissingE
    /\ hist.assembles = 1

-----------------------------------------------------------------------------
\* the tasks recorded as writers of cache file f in this pass
FileWriters(f) == {<<w[2], w[3]>> : w \in {v \in hist.wrote : v[1] = f}}

\* no instance list names an instance twice
InstanceNamesUnique(cf) ==
    \A k \in DOMAIN cf.e :
        \A i, j \in DOMAIN cf.e[k].insts :
            i # j => cf.e[k].insts[i] # cf.e[k].insts[j]

\* C12 as stated: when (case, inst_name) identifies an instance, no cache
\* file is written by more than one task of the pass, also when a case owns
\* more than one fold.
C12_WriteOncePerPass ==
    InstanceNamesUnique(cfg) =>
        \A w \in hist.wrote : Cardinality(FileWriters(w[1])) <= 1

\* no two fit_trans tasks and no two fit_est tasks of the pass carry names
\* that format to the same string
TaskNamesDistinct(cf) ==
    /\ \A i, j \in DOMAIN cf.t : i # j => Str(cf.t[i].case) # Str(cf.t[j].case)
    /\ \A i, j \in DOMAIN ETasks(cf) :
          i # j => Str(ETasks(cf)[i].case) \o "__" \o ETasks(cf)[i].name
                     # Str(ETasks(cf)[j].case) \o "__" \o ETasks(cf)[j].name

\* C12 (amended): a task writes only the file named after its own case, or
\* case and instance name; when the names of distinct tasks format to
\* distinct strings no cache file is written by more than one task.
C12_WriteOncePerTaskName ==
    /\ \A w \in hist.wrote :
          IF w[2] = "t"
          THEN w[1] = Str(cfg.t[w[3]].case) \o "__t"
          ELSE w[1] = Str(ETasks(cfg)[w[3]].case) \o "__"
                        \o ETasks(cfg)[w[3]].name \o "__e"
    /\ TaskNamesDistinct(cfg) =>
          \A w \in hist.wrote : Cardinality(FileWriters(w[1])) <= 1

\* a pass with distinct task names has returned after two fit_trans tasks and
\* three fit_est tasks wrote their files
C12_Witness ==
    /\ TaskNamesDistinct(cfg)
    /\ fitpc = "returned"
    /\ Cardinality({w \in hist.wrote : w[2] = "t"}) >= 2
    /\ Cardinality({w \in hist.wrote : w[2] = "e"}) >= 3

-----------------------------------------------------------------------------
(* A single call of _slice_array(x, y, idx, r) on data of n rows: x holds  *)
(* the rows 0 .. n-1, y (when given) the label YOf(row) of each row.       *)

YOf(row) == row + 100

\* the fold specifications tried: None, 'all', (), (a, b), ((a, b),) and
\* ((a, b), (c, d))
SliceSpecs ==
    {NoneSpec, AllSpec, Scattered(<<>>)}
    \cup {Range(a, b) : a \in 0..MaxN, b \in 0..MaxN}
    \cup {Scattered(<< <<a, b>> >>) : a \in 0..MaxN, b \in 0..MaxN}
    \cup {Scattered(<< <<a, b>>, <<c, d>> >>) :
            a \in 0..MaxN, b \in 0..MaxN, c \in 0..MaxN, d \in 0..MaxN}

SliceCalls ==
    {[fn |-> "_slice_array", n |-> n, y |-> y, idx |-> idx, r |-> r,
      done |-> FALSE, res |-> <<>>] :
        n \in 0..MaxN, y \in BOOLEAN, idx \in SliceSpecs, r \in 0..1}

SliceX(cl) == Arange(0, cl.n)
SliceY(cl) == IF cl.y THEN <<[k \in 1..cl.n |-> YOf(k - 1)]>> ELSE None

InitSlice ==
    /\ call \in SliceCalls
    /\ cfg = [n |-> call.n, rows |-> 1, cols |-> 1]
    /\ pred = EmptyPred(cfg)
    /\ fitpc = "idle"
    /\ tt = <<>>
    /\ et = <<>>
    /\ cache = <<>>
    /\ writers = [c \in DOMAIN pred.a |-> {}]
    /\ layer = PrevLayer
    /\ warns = {}
    /\ now = 0
    /\ hist = NewHist

\* x, y = _slice_array(x, y, idx, r)
SliceCall ==
    /\ ~call.done
    /\ call' = [call EXCEPT
                  !.done = TRUE,
                  !.res = _slice_array(SliceX(call), SliceY(call),
                                       call.idx, call.r)]
    /\ UNCHANGED <<cfg, fitpc, tt, et, cache, pred, writers, layer, warns, now, hist>>

NextSlice == SliceCall

SpecSlice == InitSlice /\ [][NextSlice]_vars

\* the rows a <= row < b in order, and the rows of a list of intervals
IntervalRows(a, b) == [k \in 1..(IF b > a THEN b - a ELSE 0) |-> a + k - 1]
RECURSIVE ConcatRows(_)
ConcatRows(ivs) ==
    IF ivs = <<>> THEN <<>>
    ELSE IntervalRows(ivs[1][1], ivs[1][2]) \o ConcatRows(Tail(ivs))

\* every interval of ivs that holds a row ends within the n rows
IntervalsWithin(ivs, n) ==
    \A k \in DOMAIN ivs : ivs[k][1] < ivs[k][2] => ivs[k][2] <= n

\* y, when given, is cut with the same selection as x, and stays None otherwise
SameSelection(cl) ==
    IF cl.y
    THEN cl.res.y = <<[k \in 1..Len(cl.res.x) |-> YOf(cl.res.x[k])]>>
    ELSE cl.res.y = None

\* C13: with r = 0, a range (a, b) on data of at least b rows yields exactly
\* the rows a .. b-1 in order; every tuple of intervals that lie within the
\* data yields the rows of each interval, concatenated in interval order; x
\* and y are cut with the same selection.
C13_SliceSelectsFoldRows ==
    (call.done /\ call.r = 0) =>
      /\ (call.idx.kind = "range" /\ call.idx.ivs[1][2] <= call.n) =>
            /\ call.res.ok
            /\ call.res.x = IntervalRows(call.idx.ivs[1][1], call.idx.ivs[1][2])
      /\ (call.idx.kind = "scattered"
            /\ IntervalsWithin(call.idx.ivs, call.n)) =>
            /\ call.res.ok
            /\ call.res.x = ConcatRows(call.idx.ivs)
      /\ call.res.ok => SameSelection(call)

\* the part of C13 the code meets: the same for ranges and for tuples of one
\* or more intervals
C13_NonEmptySpecsSelectFoldRows ==
    (call.done /\ call.r = 0) =>
      /\ (call.idx.kind = "range" /\ call.idx.ivs[1][2] <= call.n) =>
            /\ call.res.ok
            /\ call.res.x = IntervalRows(call.idx.ivs[1][1], call.idx.ivs[1][2])
      /\ (call.idx.kind = "scattered" /\ Len(call.idx.ivs) >= 1
            /\ IntervalsWithin(call.idx.ivs, call.n)) =>
            /\ call.res.ok
            /\ call.res.x = ConcatRows(call.idx.ivs)
      /\ call.res.ok => SameSelection(call)

\* C15: a tuple holding exactly one interval, ((a, b),), is cut by the
\* contiguous slice after collapsing to (a, b); the gather by an explicit
\* index list is taken only for more than one interval.
C15_OneIntervalCollapses ==
    call.done =>
      /\ (call.idx.kind = "scattered" /\ Len(call.idx.ivs) = 1) =>
            call.res.path = "collapsed"
      /\ call.res.path \in {"gather", "IndexError"} =>
            (call.idx.kind = "scattered" /\ Len(call.idx.ivs) > 1)

\* C16: an empty interval list selects no rows, while None and 'all' select
\* every row.
C16_EmptySpecSelectsNothing ==
    call.done =>
      /\ call.idx = Scattered(<<>>) => (call.res.ok /\ call.res.x = <<>>)
      /\ call.idx \in {NoneSpec, AllSpec} =>
            (call.res.ok /\ call.res.x = SliceX(call))

-----------------------------------------------------------------------------
\* C14: a second call of assemble on the same cache directory and the same
\* configuration ends as the first did and leaves preprocessing_, estimators_
\* and scores_ equal to what the first call left.
C14_AssembleIdempotent ==
    (hist.assembles = 2 /\ fitpc \in {"returned", "raised"}) =>
        /\ fitpc = call[1].outcome
        /\ layer.preprocessing_ = call[1].layer.preprocessing_
        /\ layer.estimators_ = call[1].layer.estimators_
        /\ layer.scores_ = call[1].layer.scores_

\* the second call has returned with transformers, several estimators and
\* their scores installed
C14_Witness ==
    /\ hist.assembles = 2 /\ fitpc = "returned"
    /\ layer.preprocessing_.from = "cache"
    /\ Len(layer.estimators_.v) > 1
    /\ layer.scores_.from = "cache"

\* LayerState before the call of assemble that ran last
PreInvocation == IF hist.assembles <= 1 THEN PrevLayer ELSE call[1].layer

\* C19: when a call of assemble has ended, returned or raised, preprocessing_
\* and estimators_ either both hold their values from before the call or both
\* hold the values read from the cache.
C19_AtomicInstall ==
    (hist.assembles >= 1 /\ fitpc \in {"returned", "raised"}) =>
        \/ /\ layer.preprocessing_ = PreInvocation.preprocessing_
           /\ layer.estimators_ = PreInvocation.estimators_
        \/ /\ AssembleTrans(cfg, cache).ok
           /\ AssembleEsts(cfg, cache).ok
           /\ layer.preprocessing_ = AssembleTrans(cfg, cache).v
           /\ layer.estimators_ =
                 [from |-> "cache", v |-> AssembleEsts(cfg, cache).ests]

-----------------------------------------------------------------------------
\* C17: _assign_predictions with tei = 'all' and predictions for every row of
\* the buffer stores them in the columns [col, col + width) of every row,
\* width being 1 for a one-dimensional p and p.shape[1] otherwise.
C17_AllFillsColumnRange ==
    (/\ call.done /\ call.fn = "_assign_predictions"
     /\ call.tei = AllSpec
     /\ call.before.rows = call.n
     /\ \A j \in TargetCols(call) : j < call.before.cols) =>
        /\ call.ok
        /\ \A i \in 0..(call.before.rows - 1) :
             \A j \in TargetCols(call) :
                pred.a[<<i, j>>] = << <<1, i, j - call.col + 1>> >>

-----------------------------------------------------------------------------
(* The predictions of one fit_est call (lines 176-197), then transform's   *)
(* predict_fold_est run with the (fold spec, column) pair fit_est cached,  *)
(* on an input of as many rows and an untouched buffer of the same shape.  *)

\* lines 177-197 of fit_est: predict on tei and write, or skip; the pair
\* cached in the bundle
fit_est_predict(x, pred0, tei, col, sh) ==
    IF Truthy(tei)
    THEN LET sl == _slice_array(x, <<x>>, tei, 0)
         IN  IF ~sl.ok
             THEN [ok |-> FALSE, pred |-> pred0, idx |-> <<tei, col>>]
             ELSE LET res == _assign_predictions(pred0, Predict(1, sl.x, sh),
                                                 tei, col, Len(x))
                  IN  [ok |-> res.ok, pred |-> res.pred, idx |-> <<tei, col>>]
    ELSE [ok |-> TRUE, pred |-> pred0, idx |-> <<NoneSpec, col>>]

\* predict_fold_est(tr_list, est, x, pred, idx, attr)
predict_fold_est(x, pred0, idx, sh) ==
    LET tei == idx[1]
        col == idx[2]
        sl == _slice_array(x, None, tei, 0)
    IN  IF ~sl.ok
        THEN [ok |-> FALSE, pred |-> pred0, err |-> "IndexError", read |-> <<>>]
        ELSE LET res == _assign_predictions(pred0, Predict(1, sl.x, sh),
                                            tei, col, Len(x))
             IN  [ok |-> res.ok, pred |-> res.pred, err |-> res.err,
                  read |-> sl.x]

ReplayCalls ==
    {[fn |-> "fit_est", n |-> n, tei |-> tei, col |-> col, sh |-> sh,
      before |-> FilledPred(rows, cols), fitok |-> FALSE, fitpred |-> <<>>,
      idx |-> <<>>, ok |-> FALSE, err |-> "", read |-> <<>>] :
        n \in 2..MaxN, rows \in 1..MaxN, cols \in 1..MaxCols,
        tei \in WriterSpecs(0, MaxN), col \in 0..(MaxCols - 1),
        sh \in 0..MaxWidth}

InitReplay ==
    /\ call \in {cl \in ReplayCalls :
                   /\ cl.before.rows <= cl.n
                   /\ cl.col < cl.before.cols
                   /\ cl.tei \in WriterSpecs(cl.n - cl.before.rows, cl.n)}
    /\ cfg = [n |-> call.n, rows |-> call.before.rows, cols |-> call.before.cols]
    /\ pred = call.before
    /\ fitpc = "idle"
    /\ tt = <<>>
    /\ et = <<>>
    /\ cache = <<>>
    /\ writers = [c \in DOMAIN pred.a |-> {}]
    /\ layer = PrevLayer
    /\ warns = {}
    /\ now = 0
    /\ hist = NewHist

\* fit_est predicts, writes the buffer and caches (tei, col) or (None, col)
ReplayFit ==
    /\ call.fn = "fit_est"
    /\ LET res == fit_est_predict(Arange(0, call.n), pred, call.tei,
                                  call.col, call.sh)
       IN  /\ pred' = res.pred
           /\ call' = [call EXCEPT !.fn = IF res.ok THEN "transform" ELSE "failed",
                                    !.fitok = res.ok, !.fitpred = res.pred,
                                    !.idx = res.idx]
    /\ UNCHANGED <<cfg, fitpc, tt, et, cache, writers, layer, warns, now, hist>>

\* transform: predict_fold_est with idx from the bundle, on a fresh buffer
ReplayTransform ==
    /\ call.fn = "transform"
    /\ LET res == predict_fold_est(Arange(0, call.n), call.before, call.idx,
                                   call.sh)
       IN  /\ pred' = res.pred
           /\ call' = [call EXCEPT !.fn = "replayed", !.ok = res.ok,
                                    !.err = res.err, !.read = res.read]
    /\ UNCHANGED <<cfg, fitpc, tt, et, cache, writers, layer, warns, now, hist>>

NextReplay ==
    \/ ReplayFit
    \/ ReplayTransform

SpecReplay == InitReplay /\ [][NextReplay]_vars

\* the region a cached pair denotes: the cells fit_est wrote for (tei, col),
\* every row of the columns [col, col + width) for (None, col)
ReplayRegion(cl) ==
    IF cl.idx[1] = NoneSpec
    THEN {c \in DOMAIN cl.before.a : c[2] \in TargetCols(cl)}
    ELSE Changed(cl.before, cl.fitpred)

\* the rows of the input a cached fold specification selects
ReplayRows(cl) ==
    IF cl.idx[1] \in {NoneSpec, AllSpec} THEN 0..(cl.n - 1)
    ELSE FoldRows(cl.idx[1], cl.n)

\* C18: predict_fold_est run with a pair that fit_est cached, (tei, col) or
\* (None, col), completes without error, reads the rows the fold spec selects
\* and writes exactly the region the pair denotes.
C18_TransformReplaysFit ==
    call.fn = "replayed" =>
        /\ call.ok
        /\ {call.read[k] : k \in DOMAIN call.read} = ReplayRows(call)
        /\ Changed(call.before, pred) = ReplayRegion(call)

\* the part of C18 the code meets: a pair cached after predicting on a
\* held-out fold is replayed into the cells fit_est wrote, with equal values
C18_HeldOutPairsReplay ==
    (call.fn = "replayed" /\ call.idx[1] # NoneSpec) =>
        /\ call.ok
        /\ {call.read[k] : k \in DOMAIN call.read} = ReplayRows(call)
        /\ pred = call.fitpred

-----------------------------------------------------------------------------
(* The outcome of a pass stated from the configuration alone: what the     *)
(* tasks leave when they run one after the other in submission order.      *)

ExpectedTrans(cf) ==
    IF ~Preprocess(cf) THEN [from |-> "none", v |-> <<>>]
    ELSE [from |-> "cache",
          v |-> [k \in DOMAIN cf.t |->
                   <<cf.t[k].case,
                     FittedTrans(cf, LastTWriter(cf, TFile(cf.t[k].case)))>>]]

\* the task whose bundle the file of task k holds at the end
FinalWriter(cf, k) == LastEWriter(cf, EFile(ETasks(cf)[k].case, ETasks(cf)[k].name))

ExpectedEsts(cf) ==
    [k \in DOMAIN ETasks(cf) |->
       <<ETasks(cf)[k].case,
         [name |-> ETasks(cf)[FinalWriter(cf, k)].name,
          inst |-> FittedEst(cf, FinalWriter(cf, k),
                             StoredTrl(cf, FinalWriter(cf, k))),
          idx |-> CachedIdx(cf, FinalWriter(cf, k))]>>]

\* raised: the tasks in which scorer(y, p) raised
ExpectedScores(cf, raised) ==
    [k \in DOMAIN ETasks(cf) |->
       <<ScoreLabel(ETasks(cf)[k].case, ETasks(cf)[k].name),
         IF FinalWriter(cf, k) \in raised THEN None
         ELSE StoredScore(cf, FinalWriter(cf, k))>>]

\* the buffer cells of the held-out rows and columns of the tasks that predict
ExpectedCells(cf) ==
    UNION {{<<row - (cf.n - cf.rows), col>> :
               row \in HeldOut(cf, i),
               col \in ColsOf(cf, TaskKey(cf, i)) \cap (0..(cf.cols - 1))} :
           i \in {j \in DOMAIN ETasks(cf) : PredictAsked(cf, j)}}

OutcomeAsExpected ==
    /\ layer.preprocessing_ = ExpectedTrans(cfg)
    /\ layer.estimators_ = [from |-> "cache", v |-> ExpectedEsts(cfg)]
    /\ layer.scores_ = IF KeepScores(cfg)
                       THEN [from |-> "cache",
                             v |-> ExpectedScores(cfg, hist.sraised)]
                       ELSE PrevLayer.scores_
    /\ {c \in DOMAIN writers : writers[c] # {}} = ExpectedCells(cfg)

\* C20 as stated: whatever the interleaving and completion order of the
\* tasks, a fit that returns leaves the LayerState and the set of written
\* buffer cells that the configuration determines.
C20_ScheduleIndependent == fitpc = "returned" => OutcomeAsExpected

\* C20 (amended): when the names of distinct tasks format to distinct strings,
\* a fit that returns leaves, in every interleaving and completion order,
\* preprocessing_ in inst.t order, estimators_ in inst.e order with each
\* task's own bundle, the score labels '<case>___<name>' and the same set of
\* written buffer cells.
C20_ScheduleIndependentDistinctNames ==
    (TaskNamesDistinct(cfg) /\ fitpc = "returned") => OutcomeAsExpected

\* a fit with preprocessing and three estimator tasks has returned after the
\* task submitted first saved last
C20_Witness ==
    /\ TaskNamesDistinct(cfg) /\ fitpc = "returned"
    /\ Preprocess(cfg) /\ Len(ETasks(cfg)) >= 3
    /\ hist.last = 1

====
